---- MODULE Spec2Model ----
(***************************************************************************)
(* Model of libraries/chain/market_evaluator.cpp: the three market         *)
(* evaluators limit_order_create, limit_order_cancel, call_order_update.   *)
(*                                                                         *)
(* An evaluator is a list of statements in source order (Stmts_...).  The  *)
(* deterministic statements between two calls into the external matching / *)
(* liquidation engine are executed in one step; each call into the engine  *)
(* (apply_order, check_call_orders) is a step of its own because its       *)
(* outcome is chosen by the engine.  The database, the price arithmetic    *)
(* and the engine are not part of this file's source; they are modelled    *)
(* from their documented contracts.                                        *)
(***************************************************************************)
EXTENDS Integers, Sequences, FiniteSets, TLC

VARIABLES
    db,         \* the ledger: every object the evaluators read or write
    saved,      \* the ledger as it was when the current operation began
    ndebug,     \* TRUE: built with NDEBUG, assert() compiles to nothing
    status,     \* "idle" | "running" | "done" | "halted"
    op,         \* the operation being applied
    pc,         \* index in the evaluator's statement list of the pending engine call
    err,        \* "none", or the failure the evaluator raised
    thrown_by,  \* the statement that raised it
    mutations,  \* ledger mutations the evaluator had applied when it stopped
    calls,      \* calls made into the Accessor / engine, in order
    loc,        \* evaluator members and locals that live across statements
    nops,       \* operations applied so far in this block
    opened      \* history: the operation that has just opened a position, and
                \* the ledger before it; <<>> once anything else has happened

vars == <<db, saved, ndebug, status, op, pc, err, thrown_by, mutations, calls, loc, nops,
          opened>>

----------------------------------------------------------------------------
(* Bounds of the model *)

MaxAmount == 2          \* largest quantity an operation names
InitialCore == 2        \* native-asset balance each account starts with
MaxTime == 1            \* expirations 0..MaxTime; the block's time is 1
MaxOps == 3             \* operations in the block

----------------------------------------------------------------------------
(* The world: accounts, assets and their static options *)

Accounts == {"alice", "bob"}

STEEM_SYMBOL == "STEEM"

Assets == {"STEEM", "USD", "PM"}

AssetId == [a \in Assets |-> CASE a = "STEEM" -> 0 [] a = "USD" -> 1 [] a = "PM" -> 2]

is_market_issued(a) == a \in {"USD", "PM"}

MarketIssued == {a \in Assets : is_market_issued(a)}

is_prediction_market(a) == a = "PM"

short_backing_asset(a) == "STEEM"

whitelist_markets(a) == IF a = "USD" THEN {"STEEM"} ELSE {}

blacklist_markets(a) == IF a = "PM" THEN {"USD"} ELSE {}

is_authorized_asset(acct, a) == ~(acct = "bob" /\ a = "PM")

asset(n, s) == [amount |-> n, symbol |-> s]

----------------------------------------------------------------------------
(* Price / collateral math *)

Abs(n) == IF n < 0 THEN -n ELSE n

RECURSIVE Gcd(_, _)
Gcd(a, b) == IF b = 0 THEN a ELSE Gcd(b, a % b)

COLLATERAL_RATIO_DENOM == 1000

NullPrice == [base |-> asset(0, STEEM_SYMBOL), quote |-> asset(0, STEEM_SYMBOL)]

is_null(p) == p = NullPrice

\* asset / asset
Price(b, q) == [base |-> b, quote |-> q]

\* operator~ : the same price quoted the other way round
Invert(p) == [base |-> p.quote, quote |-> p.base]

\* operator< on prices: by asset pair first, then by cross multiplication
PriceLT(a, b) ==
    IF AssetId[a.base.symbol] < AssetId[b.base.symbol] THEN TRUE
    ELSE IF AssetId[a.base.symbol] > AssetId[b.base.symbol] THEN FALSE
    ELSE IF AssetId[a.quote.symbol] < AssetId[b.quote.symbol] THEN TRUE
    ELSE IF AssetId[a.quote.symbol] > AssetId[b.quote.symbol] THEN FALSE
    ELSE b.quote.amount * a.base.amount < a.quote.amount * b.base.amount

\* price::call_price(debt, collateral, collateral_ratio):
\* ~( (debt * ratio/denom) / collateral ), the fraction in lowest terms with a
\* positive denominator (boost::rational).  collateral = 0 is a zero
\* denominator, which boost::rational refuses (see modify_call_order).
call_price(debt, collateral, collateral_ratio) ==
    LET n == debt.amount * collateral_ratio
        d == collateral.amount * COLLATERAL_RATIO_DENOM
        g == Gcd(Abs(n), Abs(d))
        s == IF d < 0 THEN -1 ELSE 1
    IN  Invert(Price(asset((s * n) \div g, debt.symbol),
                     asset((s * d) \div g, collateral.symbol)))

----------------------------------------------------------------------------
(* Ledger access *)

get_balance(d, acct, a) == d.balance[acct][a]

adjust_balance(d, acct, delta) ==
    [d EXCEPT !.balance[acct][delta.symbol] = @ + delta.amount]

find_limit_order(d, id) == {o \in d.limit_orders : o.id = id}

find_call_order(d, id) == {c \in d.call_orders : c.id = id}

\* call_order_index by_account: find(account, debt symbol)
find_call_by_account(d, acct, sym) ==
    {c \in d.call_orders : c.borrower = acct /\ c.debt_symbol = sym}

amount_for_sale(o) == asset(o.for_sale, o.sell_price.base.symbol)

\* variant: the failed evaluation's changes stay
undo_nothing(now, before) == now

\* The enclosing transaction discards every change of a failed evaluation.
undo(now, before) == before

----------------------------------------------------------------------------
(* Evaluation context threaded through the statements of one evaluator *)

NoLoc == [order_id |-> 0, filled |-> FALSE, call_order_id |-> 0,
          margin_called |-> FALSE, base_asset |-> "", quote_asset |-> ""]

NoOp == [name |-> "none"]

Ctx(d, o, nd) == [db |-> d, op |-> o, ndebug |-> nd, err |-> "none",
                  thrown_by |-> "", mutations |-> 0, calls |-> <<>>, loc |-> NoLoc,
                  returned |-> FALSE, pc |-> 0]

Throw(c, e) == [c EXCEPT !.err = e]

\* one modify / create / remove / adjust_balance / cancel_order applied
Mutate(c, d, what) ==
    [c EXCEPT !.db = d, !.mutations = @ + 1, !.calls = Append(@, <<what, "">>)]

----------------------------------------------------------------------------
(* The external matching / liquidation engine and cancel_order, from their *)
(* contracts: trades are exact at the resting order's price, an order or   *)
(* position that reaches zero is removed, and every payout keeps           *)
(* total_core_in_orders in step.                                           *)

Max(S) == CHOOSE x \in S : \A y \in S : y <= x

\* limit order o pays out n of what it sells
pay_limit(d, o, n) ==
    LET d1 == IF o.sell_price.base.symbol = STEEM_SYMBOL
              THEN [d EXCEPT !.total_core_in_orders[o.seller] = @ - n]
              ELSE d
    IN  [d1 EXCEPT !.limit_orders =
            (@ \ {o}) \cup (IF o.for_sale = n THEN {}
                            ELSE {[o EXCEPT !.for_sale = @ - n]})]

\* what the maker asks for x of what it sells, when that is a whole amount
maker_asks(m, x) == (x * m.sell_price.quote.amount) \div m.sell_price.base.amount

exact(m, x) == (x * m.sell_price.quote.amount) % m.sell_price.base.amount = 0

\* amounts x of the maker's asset the taker t can buy from resting order m
limit_trades(t, m) ==
    IF /\ m.id # t.id
       /\ m.sell_price.base.symbol = t.sell_price.quote.symbol
       /\ m.sell_price.quote.symbol = t.sell_price.base.symbol
       /\ m.sell_price.quote.amount * t.sell_price.quote.amount
             <= t.sell_price.base.amount * m.sell_price.base.amount
    THEN {x \in 1..m.for_sale :
             exact(m, x) /\ maker_asks(m, x) >= 1 /\ maker_asks(m, x) <= t.for_sale}
    ELSE {}

fill_limit(d, t, m, x) ==
    LET pay == maker_asks(m, x)
        d1 == pay_limit(pay_limit(d, t, pay), m, x)
        d2 == adjust_balance(d1, t.seller, asset(x, m.sell_price.base.symbol))
    IN  adjust_balance(d2, m.seller, asset(pay, t.sell_price.base.symbol))

RECURSIVE match_limit(_, _)
match_limit(d, id) ==
    LET ts == find_limit_order(d, id)
    IN  IF ts = {} THEN {d}
        ELSE LET t == CHOOSE o \in ts : TRUE
                 ms == {m \in d.limit_orders : limit_trades(t, m) # {}}
             IN  IF ms = {} THEN {d}
                 ELSE UNION {match_limit(fill_limit(d, t, m, Max(limit_trades(t, m))), id)
                                : m \in ms}

\* database::apply_order(new_order) -> filled
apply_order(c) ==
    {[c EXCEPT !.db = d,
               !.calls = Append(@, <<"apply_order", "">>),
               !.loc.filled = (find_limit_order(d, c.loc.order_id) = {})]
        : d \in match_limit(c.db, c.loc.order_id)}

\* database::cancel_order(order, create_virtual_op): refund and remove
cancel_order(d, o) ==
    LET d1 == adjust_balance(d, o.seller, amount_for_sale(o))
        d2 == IF o.sell_price.base.symbol = STEEM_SYMBOL
              THEN [d1 EXCEPT !.total_core_in_orders[o.seller] = @ - o.for_sale]
              ELSE d1
    IN  [d2 EXCEPT !.limit_orders = @ \ {o}]

\* the position can be margin called at the current feed
callable(d, cl) ==
    ~PriceLT(Invert(cl.call_price), d.bitasset[cl.debt_symbol].current_feed.settlement_price)

\* amounts x of debt that resting order m can cover for position cl
call_trades(cl, m) ==
    IF /\ m.sell_price.base.symbol = cl.debt_symbol
       /\ m.sell_price.quote.symbol = short_backing_asset(cl.debt_symbol)
    THEN {x \in 1..m.for_sale :
             /\ x <= cl.debt
             /\ exact(m, x)
             /\ maker_asks(m, x) >= 1
             /\ IF x = cl.debt THEN maker_asks(m, x) <= cl.collateral
                               ELSE maker_asks(m, x) < cl.collateral}
    ELSE {}

fill_call(d, cl, m, x) ==
    LET pay == maker_asks(m, x)
        back == short_backing_asset(cl.debt_symbol)
        freed == IF x = cl.debt THEN cl.collateral ELSE pay
        d1 == adjust_balance(pay_limit(d, m, x), m.seller, asset(pay, back))
        d2 == [d1 EXCEPT !.current_supply[cl.debt_symbol] = @ - x]
        d3 == IF back = STEEM_SYMBOL
              THEN [d2 EXCEPT !.total_core_in_orders[cl.borrower] = @ - freed]
              ELSE d2
        d4 == adjust_balance(d3, cl.borrower, asset(freed - pay, back))
    IN  [d4 EXCEPT !.call_orders =
            (@ \ {cl}) \cup (IF x = cl.debt THEN {}
                             ELSE {[cl EXCEPT !.debt = @ - x, !.collateral = @ - pay]})]

RECURSIVE margin_call(_, _, _)
margin_call(d, a, filled) ==
    IF \/ ~is_market_issued(a)
       \/ is_prediction_market(a)
       \/ is_null(d.bitasset[a].current_feed.settlement_price)
    THEN {[db |-> d, filled |-> filled]}
    ELSE LET ps == {p \in d.call_orders \X d.limit_orders :
                       /\ p[1].debt_symbol = a
                       /\ callable(d, p[1])
                       /\ call_trades(p[1], p[2]) # {}}
         IN  IF ps = {} THEN {[db |-> d, filled |-> filled]}
             ELSE UNION {margin_call(fill_call(d, p[1], p[2], Max(call_trades(p[1], p[2]))),
                                     a, TRUE) : p \in ps}

\* database::check_call_orders(asset, allow_black_swan) -> any call filled
check_call_orders(c, a) ==
    {[c EXCEPT !.db = r.db,
               !.calls = Append(@, <<"check_call_orders", a>>),
               !.loc.margin_called = r.filled]
        : r \in margin_call(c.db, a, FALSE)}

----------------------------------------------------------------------------
(* limit_order_create_evaluator::do_apply, statement by statement *)

assert_expiration(c) ==
    IF c.op.expiration >= c.db.head_block_time THEN c ELSE Throw(c, "Expired")

assert_whitelist(c) ==
    LET sell == c.op.amount_to_sell.symbol
        recv == c.op.min_to_receive.symbol
    IN  IF whitelist_markets(sell) # {} /\ recv \notin whitelist_markets(sell)
        THEN Throw(c, "MarketRestricted") ELSE c

assert_blacklist(c) ==
    LET sell == c.op.amount_to_sell.symbol
        recv == c.op.min_to_receive.symbol
    IN  IF blacklist_markets(sell) # {} /\ recv \in blacklist_markets(sell)
        THEN Throw(c, "MarketRestricted") ELSE c

assert_authorized(c) ==
    IF /\ is_authorized_asset(c.op.seller, c.op.amount_to_sell.symbol)
       /\ is_authorized_asset(c.op.seller, c.op.min_to_receive.symbol)
    THEN c ELSE Throw(c, "AssetNotAuthorized")

assert_sell_balance(c) ==
    IF get_balance(c.db, c.op.seller, c.op.amount_to_sell.symbol)
          >= c.op.amount_to_sell.amount
    THEN c ELSE Throw(c, "InsufficientBalance")

\* variant: the statistic is raised whatever asset is sold
modify_seller_stats_any(c) ==
    Mutate(c,
           [c.db EXCEPT !.total_core_in_orders[c.op.seller] =
                           @ + c.op.amount_to_sell.amount],
           "modify")

modify_seller_stats(c) ==
    Mutate(c,
           IF c.op.amount_to_sell.symbol = STEEM_SYMBOL
           THEN [c.db EXCEPT !.total_core_in_orders[c.op.seller] =
                                 @ + c.op.amount_to_sell.amount]
           ELSE c.db,
           "modify")

debit_seller(c) ==
    Mutate(c,
           adjust_balance(c.db, c.op.seller,
                          asset(-c.op.amount_to_sell.amount, c.op.amount_to_sell.symbol)),
           "adjust_balance")

\* op.get_price() is amount_to_sell / min_to_receive
create_limit_order(c) ==
    LET id == c.db.next_limit_order_id
        obj == [id |-> id,
                seller |-> c.op.seller,
                for_sale |-> c.op.amount_to_sell.amount,
                sell_price |-> Price(c.op.amount_to_sell, c.op.min_to_receive),
                expiration |-> c.op.expiration]
        c1 == Mutate(c, [c.db EXCEPT !.limit_orders = @ \cup {obj},
                                     !.next_limit_order_id = @ + 1],
                     "create")
    IN  [c1 EXCEPT !.loc.order_id = id]

\* variant: every order must fill, fill_or_kill or not
assert_filled(c) ==
    IF c.loc.filled THEN c ELSE Throw(c, "FillOrKillFailed")

assert_fill_or_kill(c) ==
    IF ~c.op.fill_or_kill \/ c.loc.filled THEN c ELSE Throw(c, "FillOrKillFailed")

Stmts_limit_order_create ==
    << "assert_expiration", "assert_whitelist", "assert_blacklist",
       "assert_authorized", "assert_sell_balance",
       "modify_seller_stats", "debit_seller", "create_limit_order",
       "apply_order", "assert_fill_or_kill" >>

----------------------------------------------------------------------------
(* limit_order_cancel_evaluator::do_apply *)

\* o.order(d): the lookup throws when the order does not exist
find_order(c) ==
    IF find_limit_order(c.db, c.op.order) = {} THEN Throw(c, "OrderNotFound")
    ELSE [c EXCEPT !.loc.order_id = c.op.order]

the_order(c) == CHOOSE o \in find_limit_order(c.db, c.loc.order_id) : TRUE

\* variant: the seller is not compared with the requesting account
assert_owner_unchecked(c) == c

assert_owner(c) ==
    IF the_order(c).seller = c.op.fee_paying_account THEN c ELSE Throw(c, "NotOwner")

read_order_assets(c) ==
    [c EXCEPT !.loc.base_asset = the_order(c).sell_price.base.symbol,
              !.loc.quote_asset = the_order(c).sell_price.quote.symbol]

do_cancel_order(c) ==
    LET c1 == Mutate(c, cancel_order(c.db, the_order(c)), "cancel_order")
    IN  [c1 EXCEPT !.calls[Len(c1.calls)] = <<"cancel_order", "no virtual op">>]

\* variant: the quote asset is rechecked before the base asset
Stmts_limit_order_cancel_quote_first ==
    << "find_order", "assert_owner",
       "read_order_assets", "do_cancel_order",
       "check_call_orders_quote", "check_call_orders_base" >>

Stmts_limit_order_cancel ==
    << "find_order", "assert_owner",
       "read_order_assets", "do_cancel_order",
       "check_call_orders_base", "check_call_orders_quote" >>

----------------------------------------------------------------------------
(* call_order_update_evaluator::do_apply *)

bitasset_data(c) == c.db.bitasset[c.op.delta_debt.symbol]

assert_market_issued(c) ==
    IF is_market_issued(c.op.delta_debt.symbol) THEN c
    ELSE Throw(c, "NotCollateralizedAsset")

\* variant: the settlement flag is not looked at
assert_no_settlement_unchecked(c) == c

assert_no_settlement(c) ==
    IF ~bitasset_data(c).has_settlement THEN c ELSE Throw(c, "SettlementInProgress")

assert_backing_asset(c) ==
    IF c.op.delta_collateral.symbol = short_backing_asset(c.op.delta_debt.symbol)
    THEN c ELSE Throw(c, "WrongCollateralAsset")

\* variant: a prediction market needs no feed and nothing else is asked of it
assert_feed_only(c) ==
    IF is_prediction_market(c.op.delta_debt.symbol) THEN c
    ELSE IF is_null(bitasset_data(c).current_feed.settlement_price)
         THEN Throw(c, "NoPriceFeed") ELSE c

assert_feed(c) ==
    IF is_prediction_market(c.op.delta_debt.symbol)
    THEN IF c.op.delta_collateral.amount = c.op.delta_debt.amount
         THEN c ELSE Throw(c, "PredictionMarketMismatch")
    ELSE IF is_null(bitasset_data(c).current_feed.settlement_price)
         THEN Throw(c, "NoPriceFeed") ELSE c

\* the comparison is between the balance and delta_debt itself
assert_debt_balance(c) ==
    IF c.op.delta_debt.amount < 0
    THEN IF get_balance(c.db, c.op.funding_account, c.op.delta_debt.symbol)
               >= c.op.delta_debt.amount
         THEN c ELSE Throw(c, "InsufficientBalance")
    ELSE c

assert_collateral_balance(c) ==
    IF c.op.delta_collateral.amount > 0
    THEN IF get_balance(c.db, c.op.funding_account,
                        short_backing_asset(c.op.delta_debt.symbol))
               >= c.op.delta_collateral.amount
         THEN c ELSE Throw(c, "InsufficientBalance")
    ELSE c

\* assert(current_supply >= 0) stops the process unless built with NDEBUG
adjust_debt(c) ==
    IF c.op.delta_debt.amount # 0
    THEN LET c1 == Mutate(c, adjust_balance(c.db, c.op.funding_account, c.op.delta_debt),
                          "adjust_balance")
             c2 == Mutate(c1, [c1.db EXCEPT !.current_supply[c.op.delta_debt.symbol] =
                                               @ + c.op.delta_debt.amount],
                          "modify")
         IN  IF c2.db.current_supply[c.op.delta_debt.symbol] < 0 /\ ~c.ndebug
             THEN Throw(c2, "abort") ELSE c2
    ELSE c

\* variant: the collateral moves but the account's statistic is left alone
\* variant: collateral is taken from the account but never handed back
adjust_collateral_debit_only(c) ==
    IF c.op.delta_collateral.amount > 0
    THEN LET c1 == Mutate(c, adjust_balance(c.db, c.op.funding_account,
                                 asset(-c.op.delta_collateral.amount,
                                       c.op.delta_collateral.symbol)),
                          "adjust_balance")
         IN  IF c.op.delta_collateral.symbol = STEEM_SYMBOL
             THEN Mutate(c1, [c1.db EXCEPT !.total_core_in_orders[c.op.funding_account] =
                                              @ + c.op.delta_collateral.amount],
                         "modify")
             ELSE c1
    ELSE c

adjust_collateral_no_stats(c) ==
    IF c.op.delta_collateral.amount # 0
    THEN Mutate(c, adjust_balance(c.db, c.op.funding_account,
                                  asset(-c.op.delta_collateral.amount,
                                        c.op.delta_collateral.symbol)),
                "adjust_balance")
    ELSE c

adjust_collateral(c) ==
    IF c.op.delta_collateral.amount # 0
    THEN LET c1 == Mutate(c, adjust_balance(c.db, c.op.funding_account,
                                 asset(-c.op.delta_collateral.amount,
                                       c.op.delta_collateral.symbol)),
                          "adjust_balance")
         IN  IF c.op.delta_collateral.symbol = STEEM_SYMBOL
             THEN Mutate(c1, [c1.db EXCEPT !.total_core_in_orders[c.op.funding_account] =
                                              @ + c.op.delta_collateral.amount],
                         "modify")
             ELSE c1
    ELSE c

create_call_order(c) ==
    LET id == c.db.next_call_order_id
        call == [id |-> id,
                 borrower |-> c.op.funding_account,
                 debt_symbol |-> c.op.delta_debt.symbol,
                 collateral |-> c.op.delta_collateral.amount,
                 debt |-> c.op.delta_debt.amount,
                 call_price |-> call_price(c.op.delta_debt, c.op.delta_collateral,
                                    bitasset_data(c).current_feed.maintenance_collateral_ratio)]
        c1 == Mutate(c, [c.db EXCEPT !.call_orders = @ \cup {call},
                                     !.next_call_order_id = @ + 1],
                     "create")
    IN  [c1 EXCEPT !.loc.call_order_id = id]

get_debt(call) == asset(call.debt, call.debt_symbol)

get_collateral(call) == asset(call.collateral, short_backing_asset(call.debt_symbol))

\* variant: the call price is left as it was
accumulate_stale_price(call, o, mcr) ==
    [call EXCEPT !.collateral = @ + o.delta_collateral.amount,
                 !.debt = @ + o.delta_debt.amount]

\* the body of the modify lambda
accumulate(call, o, mcr) ==
    LET c1 == [call EXCEPT !.collateral = @ + o.delta_collateral.amount,
                           !.debt = @ + o.delta_debt.amount]
    IN  IF c1.debt > 0
        THEN [c1 EXCEPT !.call_price = call_price(get_debt(c1), get_collateral(c1), mcr)]
        ELSE c1

modify_call_order(c, old) ==
    LET sum == old.collateral + c.op.delta_collateral.amount
        owed == old.debt + c.op.delta_debt.amount
    IN  IF owed > 0 /\ sum = 0
        THEN Throw(c, "bad_rational")
        ELSE LET new == accumulate(old, c.op,
                                   bitasset_data(c).current_feed.maintenance_collateral_ratio)
                 c1 == Mutate(c, [c.db EXCEPT !.call_orders = (@ \ {old}) \cup {new}],
                              "modify")
             IN  [c1 EXCEPT !.loc.call_order_id = old.id]

\* variant: a new position is opened whatever the signs of the deltas
\* variant: the account's existing position is not looked up
update_call_order_always_create(c) ==
    IF c.op.delta_collateral.amount > 0 /\ c.op.delta_debt.amount > 0
    THEN create_call_order(c)
    ELSE Throw(c, "NewPositionNotPositive")

update_call_order_any_deltas(c) ==
    LET found == find_call_by_account(c.db, c.op.funding_account, c.op.delta_debt.symbol)
    IN  IF found = {}
        THEN create_call_order(c)
        ELSE modify_call_order(c, CHOOSE x \in found : TRUE)

update_call_order(c) ==
    LET found == find_call_by_account(c.db, c.op.funding_account, c.op.delta_debt.symbol)
    IN  IF found = {}
        THEN IF c.op.delta_collateral.amount > 0 /\ c.op.delta_debt.amount > 0
             THEN create_call_order(c)
             ELSE Throw(c, "NewPositionNotPositive")
        ELSE modify_call_order(c, CHOOSE x \in found : TRUE)

call_obj(c) == CHOOSE x \in find_call_order(c.db, c.loc.call_order_id) : TRUE

close_if_repaid(c) ==
    IF call_obj(c).debt = 0
    THEN IF call_obj(c).collateral = 0
         THEN [Mutate(c, [c.db EXCEPT !.call_orders = @ \ {call_obj(c)}], "remove")
                  EXCEPT !.returned = TRUE]
         ELSE Throw(c, "CollateralLeftOnClose")
    ELSE c

\* variant: only the debt is required to be positive
assert_positive_debt(c) ==
    IF call_obj(c).debt > 0 THEN c ELSE Throw(c, "NotPositive")

assert_positive(c) ==
    IF call_obj(c).collateral > 0 /\ call_obj(c).debt > 0 THEN c
    ELSE Throw(c, "NotPositive")

\* variant: a position exactly at the settlement price is let through
\* variant: after fills, an order that is left is only refused when callable
assert_margin_call_if_callable(c) ==
    LET found == find_call_order(c.db, c.loc.call_order_id)
    IN  IF is_prediction_market(c.op.delta_debt.symbol) THEN c
        ELSE IF found = {}
        THEN IF c.loc.margin_called THEN c ELSE Throw(c, "CallObjectDeleted")
        ELSE IF PriceLT(Invert(call_obj(c).call_price), bitasset_data(c).current_feed.settlement_price)
        THEN c ELSE Throw(c, "UnfilledMarginCall")

assert_margin_call_at_price(c) ==
    LET found == find_call_order(c.db, c.loc.call_order_id)
    IN  IF is_prediction_market(c.op.delta_debt.symbol) THEN c
        ELSE IF c.loc.margin_called
        THEN IF found = {} THEN c ELSE Throw(c, "UnfilledMarginCall")
        ELSE IF found = {} THEN Throw(c, "CallObjectDeleted")
        ELSE IF ~PriceLT(bitasset_data(c).current_feed.settlement_price,
                         Invert(call_obj(c).call_price))
        THEN c ELSE Throw(c, "UnfilledMarginCall")

assert_margin_call(c) ==
    LET found == find_call_order(c.db, c.loc.call_order_id)
    IN  IF is_prediction_market(c.op.delta_debt.symbol) THEN c
        ELSE IF c.loc.margin_called
        THEN IF found = {} THEN c ELSE Throw(c, "UnfilledMarginCall")
        ELSE IF found = {} THEN Throw(c, "CallObjectDeleted")
        ELSE IF PriceLT(Invert(call_obj(c).call_price), bitasset_data(c).current_feed.settlement_price)
        THEN c ELSE Throw(c, "UnfilledMarginCall")

\* variant: the feed / prediction market check comes after the balance changes
Stmts_call_order_update_late_feed_check ==
    << "assert_market_issued", "assert_no_settlement", "assert_backing_asset",
       "assert_debt_balance", "assert_collateral_balance",
       "adjust_debt", "adjust_collateral", "assert_feed", "update_call_order",
       "close_if_repaid", "assert_positive",
       "check_call_orders", "assert_margin_call" >>

Stmts_call_order_update ==
    << "assert_market_issued", "assert_no_settlement", "assert_backing_asset",
       "assert_feed", "assert_debt_balance", "assert_collateral_balance",
       "adjust_debt", "adjust_collateral", "update_call_order",
       "close_if_repaid", "assert_positive",
       "check_call_orders", "assert_margin_call" >>

\* the statements of each evaluator's first try block (its Validate phase)
ValidateStmts ==
    { "assert_expiration", "assert_whitelist", "assert_blacklist",
      "assert_authorized", "assert_sell_balance",
      "find_order", "assert_owner",
      "assert_market_issued", "assert_no_settlement", "assert_backing_asset",
      "assert_feed", "assert_debt_balance", "assert_collateral_balance" }

----------------------------------------------------------------------------
(* Running an evaluator *)

Program(name) ==
    CASE name = "limit_order_create" -> Stmts_limit_order_create
      [] name = "limit_order_cancel" -> Stmts_limit_order_cancel
      [] name = "call_order_update" -> Stmts_call_order_update

\* statements that call into the engine; call_order_update makes its call
\* only for assets that are not prediction markets
\* variant: call_order_update calls the engine for every kind of asset
IsEngineCall_every_asset(stmt, c) ==
    stmt \in {"apply_order", "check_call_orders_base", "check_call_orders_quote",
              "check_call_orders"}

IsEngineCall(stmt, c) ==
    \/ stmt \in {"apply_order", "check_call_orders_base", "check_call_orders_quote"}
    \/ stmt = "check_call_orders" /\ ~is_prediction_market(c.op.delta_debt.symbol)

Exec(stmt, c) ==
    CASE stmt = "assert_expiration" -> assert_expiration(c)
      [] stmt = "assert_whitelist" -> assert_whitelist(c)
      [] stmt = "assert_blacklist" -> assert_blacklist(c)
      [] stmt = "assert_authorized" -> assert_authorized(c)
      [] stmt = "assert_sell_balance" -> assert_sell_balance(c)
      [] stmt = "modify_seller_stats" -> modify_seller_stats(c)
      [] stmt = "debit_seller" -> debit_seller(c)
      [] stmt = "create_limit_order" -> create_limit_order(c)
      [] stmt = "assert_fill_or_kill" -> assert_fill_or_kill(c)
      [] stmt = "find_order" -> find_order(c)
      [] stmt = "assert_owner" -> assert_owner(c)
      [] stmt = "read_order_assets" -> read_order_assets(c)
      [] stmt = "do_cancel_order" -> do_cancel_order(c)
      [] stmt = "assert_market_issued" -> assert_market_issued(c)
      [] stmt = "assert_no_settlement" -> assert_no_settlement(c)
      [] stmt = "assert_backing_asset" -> assert_backing_asset(c)
      [] stmt = "assert_feed" -> assert_feed(c)
      [] stmt = "assert_debt_balance" -> assert_debt_balance(c)
      [] stmt = "assert_collateral_balance" -> assert_collateral_balance(c)
      [] stmt = "adjust_debt" -> adjust_debt(c)
      [] stmt = "adjust_collateral" -> adjust_collateral(c)
      [] stmt = "update_call_order" -> update_call_order(c)
      [] stmt = "close_if_repaid" -> close_if_repaid(c)
      [] stmt = "assert_positive" -> assert_positive(c)
      [] stmt = "check_call_orders" -> c
      [] stmt = "assert_margin_call" -> assert_margin_call(c)

\* execute from statement i up to the next engine call, a failure, a return
\* or the end of the evaluator
RECURSIVE Run(_, _, _)
Run(prog, i, c) ==
    IF c.err # "none" \/ c.returned \/ i > Len(prog) THEN [c EXCEPT !.pc = 0]
    ELSE IF IsEngineCall(prog[i], c) THEN [c EXCEPT !.pc = i]
    ELSE LET c1 == Exec(prog[i], c)
         IN  Run(prog, i + 1,
                 IF c1.err # "none" THEN [c1 EXCEPT !.thrown_by = prog[i]] ELSE c1)

\* the state an evaluator step leaves behind
Commit(c, before) ==
    /\ db' = IF c.err = "none" \/ c.err = "abort" THEN c.db ELSE undo(c.db, before)
    /\ saved' = before
    /\ status' = IF c.err = "abort" THEN "halted"
                 ELSE IF c.pc = 0 THEN "done" ELSE "running"
    /\ op' = c.op
    /\ pc' = c.pc
    /\ err' = c.err
    /\ thrown_by' = c.thrown_by
    /\ mutations' = c.mutations
    /\ calls' = c.calls
    /\ loc' = c.loc
    /\ UNCHANGED <<ndebug, opened>>

\* the context of the evaluator that is waiting on an engine call
Current == [db |-> db, op |-> op, ndebug |-> ndebug, err |-> err,
            thrown_by |-> thrown_by, mutations |-> mutations, calls |-> calls, loc |-> loc,
            returned |-> FALSE, pc |-> pc]

At(stmt) == status = "running" /\ Program(op.name)[pc] = stmt

Begin(o) ==
    /\ status = "idle"
    /\ nops < MaxOps
    /\ nops' = nops + 1
    /\ Commit(Run(Program(o.name), 1, Ctx(db, o, ndebug)), db)

\* the engine has returned c: run on to the next engine call or to the end
Resume(c) ==
    /\ UNCHANGED nops
    /\ Commit(Run(Program(op.name), pc + 1, c), saved)

----------------------------------------------------------------------------
(* Operations *)

Amounts == 1..MaxAmount

Deltas == (-MaxAmount)..MaxAmount

limit_order_create ==
    /\ status = "idle"
    /\ \E seller \in Accounts, sell \in Assets, recv \in Assets,
          n \in Amounts, m \in Amounts, exp \in 0..MaxTime, fok \in BOOLEAN :
          /\ sell # recv
          /\ Begin([name |-> "limit_order_create",
                    seller |-> seller,
                    amount_to_sell |-> asset(n, sell),
                    min_to_receive |-> asset(m, recv),
                    expiration |-> exp,
                    fill_or_kill |-> fok])

limit_order_apply_order ==
    /\ At("apply_order")
    /\ \E c \in apply_order(Current) :
          Resume(c)

limit_order_cancel ==
    /\ status = "idle"
    /\ \E acct \in Accounts, id \in 1..MaxOps :
          Begin([name |-> "limit_order_cancel",
                 fee_paying_account |-> acct,
                 order |-> id])

limit_order_cancel_check_base ==
    /\ At("check_call_orders_base")
    /\ \E c \in check_call_orders(Current, loc.base_asset) :
          Resume(c)

limit_order_cancel_check_quote ==
    /\ At("check_call_orders_quote")
    /\ \E c \in check_call_orders(Current, loc.quote_asset) :
          Resume(c)

call_order_update ==
    /\ status = "idle"
    /\ \E acct \in Accounts, debt \in Assets, coll \in {"STEEM", "USD"},
          dd \in Deltas, dc \in Deltas :
          /\ debt # coll
          /\ dd # 0 \/ dc # 0
          /\ Begin([name |-> "call_order_update",
                    funding_account |-> acct,
                    delta_debt |-> asset(dd, debt),
                    delta_collateral |-> asset(dc, coll)])

call_order_update_check ==
    /\ At("check_call_orders")
    /\ \E c \in check_call_orders(Current, op.delta_debt.symbol) :
          Resume(c)

\* the evaluator object goes away; the next operation of the block follows
finish ==
    /\ status = "done"
    /\ status' = "idle"
    /\ saved' = db
    /\ op' = NoOp
    /\ pc' = 0
    /\ err' = "none"
    /\ thrown_by' = ""
    /\ mutations' = 0
    /\ calls' = <<>>
    /\ loc' = NoLoc
    /\ opened' = IF /\ op.name = "call_order_update"
                    /\ err = "none"
                    /\ \E i \in 1..Len(calls) : calls[i][1] = "create"
                    /\ find_call_order(db, loc.call_order_id) # {}
                 THEN <<[op |-> op, before |-> saved]>>
                 ELSE <<>>
    /\ UNCHANGED <<db, ndebug, nops>>

----------------------------------------------------------------------------
(* The environment between operations: a feed is published *)

Feed(p, r) == [settlement_price |-> p, maintenance_collateral_ratio |-> r]

NoFeed == Feed(NullPrice, 1750)

\* the feeds that get published for asset a, in a per STEEM
Feeds(a) == {NoFeed,
             Feed(Price(asset(2, a), asset(1, "STEEM")), 1750),
             Feed(Price(asset(3, a), asset(2, "STEEM")), 1500)}

publish_feed ==
    /\ status = "idle"
    /\ nops < MaxOps
    /\ nops' = nops + 1
    /\ \E a \in MarketIssued : \E f \in Feeds(a) :
          /\ db.bitasset[a].current_feed # f
          /\ db' = [db EXCEPT !.bitasset[a].current_feed = f]
          /\ saved' = db'
    /\ opened' = <<>>
    /\ UNCHANGED <<ndebug, status, op, pc, err, thrown_by, mutations, calls, loc>>

\* the sum of the amounts in a set S of <<object id, amount>> pairs
RECURSIVE SumOf(_)
SumOf(S) ==
    IF S = {} THEN 0
    ELSE LET x == CHOOSE y \in S : TRUE IN x[2] + SumOf(S \ {x})

\* the STEEM that acct has locked as collateral of call orders on asset a
core_collateral(d, acct, a) ==
    LET mine == {cl \in d.call_orders : cl.borrower = acct /\ cl.debt_symbol = a}
    IN  IF short_backing_asset(a) = STEEM_SYMBOL
        THEN SumOf({<<cl.id, cl.collateral>> : cl \in mine}) ELSE 0

\* The environment between operations: an asset is globally settled. Its call
\* orders are closed into the settlement fund and the flag is set for good.
globally_settle ==
    /\ status = "idle"
    /\ nops < MaxOps
    /\ nops' = nops + 1
    /\ \E a \in MarketIssued :
          /\ ~db.bitasset[a].has_settlement
          /\ db' = [db EXCEPT
                       !.bitasset[a].has_settlement = TRUE,
                       !.call_orders = {cl \in @ : cl.debt_symbol # a},
                       !.total_core_in_orders =
                           [acct \in Accounts |-> @[acct] - core_collateral(db, acct, a)]]
          /\ saved' = db'
    /\ opened' = <<>>
    /\ UNCHANGED <<ndebug, status, op, pc, err, thrown_by, mutations, calls, loc>>

----------------------------------------------------------------------------

\* bob holds an open USD position of 1 USD against 1 STEEM, taken under the
\* feed that is current; nothing else is on the books
InitCall ==
    [id |-> 1, borrower |-> "bob", debt_symbol |-> "USD", collateral |-> 1, debt |-> 1,
     call_price |-> call_price(asset(1, "USD"), asset(1, "STEEM"), 1750)]

InitDb ==
    [balance |-> [a \in Accounts |->
                    [s \in Assets |->
                        IF s = STEEM_SYMBOL THEN InitialCore
                        ELSE IF a = "bob" /\ s = "USD" THEN 1 ELSE 0]],
     total_core_in_orders |-> [a \in Accounts |-> IF a = "bob" THEN 1 ELSE 0],
     current_supply |-> [s \in MarketIssued |-> IF s = "USD" THEN 1 ELSE 0],
     limit_orders |-> {},
     call_orders |-> {InitCall},
     bitasset |-> [s \in MarketIssued |->
                     [has_settlement |-> FALSE,
                      current_feed |->
                          IF s = "USD"
                          THEN Feed(Price(asset(2, "USD"), asset(1, "STEEM")), 1750)
                          ELSE NoFeed]],
     next_limit_order_id |-> 1,
     next_call_order_id |-> 2,
     head_block_time |-> 1]

Init ==
    /\ db = InitDb
    /\ saved = InitDb
    /\ ndebug \in BOOLEAN
    /\ status = "idle"
    /\ op = NoOp
    /\ pc = 0
    /\ err = "none"
    /\ thrown_by = ""
    /\ mutations = 0
    /\ calls = <<>>
    /\ loc = NoLoc
    /\ nops = 0
    /\ opened = <<>>

Next ==
    \/ limit_order_create
    \/ limit_order_apply_order
    \/ limit_order_cancel
    \/ limit_order_cancel_check_base
    \/ limit_order_cancel_check_quote
    \/ call_order_update
    \/ call_order_update_check
    \/ finish
    \/ publish_feed
    \/ globally_settle

Spec == Init /\ [][Next]_vars

----------------------------------------------------------------------------
(* Properties *)

Is(name) == op.name = name

Failed == err \notin {"none", "abort"}

Succeeded == status = "done" /\ err = "none"

Called(what) == \E i \in 1..Len(calls) : calls[i][1] = what

\* the position the current call_order_update is about, now and when it began
Updated == find_call_by_account(db, op.funding_account, op.delta_debt.symbol)

UpdatedBefore == find_call_by_account(saved, op.funding_account, op.delta_debt.symbol)

NotCallable(cl) ==
    PriceLT(Invert(cl.call_price), db.bitasset[cl.debt_symbol].current_feed.settlement_price)

\* C1: every stored call order has debt > 0 and collateral > 0; a repaid
\* position is removed, and no update leaves one with a zero or negative side.
C1_CallOrdersPositive ==
    \A cl \in db.call_orders : cl.debt > 0 /\ cl.collateral > 0

\* a successful update changed an existing position and left it open
C1_Witness ==
    /\ Is("call_order_update") /\ Succeeded
    /\ \E cl \in Updated : \E old \in UpdatedBefore :
          cl.debt # old.debt \/ cl.collateral # old.collateral

\* C2 as stated, for every debt asset with a published feed: after a
\* successful call_order_update the position is gone or ~call_price is
\* strictly below the settlement price.
C2_NotCallableAnyAsset ==
    (/\ Is("call_order_update") /\ Succeeded
     /\ ~is_null(db.bitasset[op.delta_debt.symbol].current_feed.settlement_price))
        => \A cl \in Updated : NotCallable(cl)

\* C2 amended: the same for debt assets that are not prediction markets.
C2_NotCallable ==
    (/\ Is("call_order_update") /\ Succeeded
     /\ ~is_prediction_market(op.delta_debt.symbol))
        => \A cl \in Updated : NotCallable(cl)

C2_Witness ==
    /\ Is("call_order_update") /\ Succeeded
    /\ ~is_prediction_market(op.delta_debt.symbol)
    /\ Updated # {}

\* C3 as stated: no operation fails after a ledger mutation has been applied.
C3_NoFailureAfterMutation == Failed => mutations = 0

\* C3 amended: a check of the Validate phase never fails after a mutation.
C3_ValidateBeforeMutation ==
    (err # "none" /\ thrown_by \in ValidateStmts) => mutations = 0

C3_Witness ==
    /\ Is("call_order_update") /\ status = "done"
    /\ thrown_by = "assert_collateral_balance"

C5_PayDownNeedsBalance ==
    (/\ Is("call_order_update")
     /\ op.delta_debt.amount < 0
     /\ get_balance(saved, op.funding_account, op.delta_debt.symbol)
           < -op.delta_debt.amount)
        => (err # "none" /\ thrown_by \in ValidateStmts)

ValidCreate ==
    /\ op.expiration >= saved.head_block_time
    /\ \/ whitelist_markets(op.amount_to_sell.symbol) = {}
       \/ op.min_to_receive.symbol \in whitelist_markets(op.amount_to_sell.symbol)
    /\ op.min_to_receive.symbol \notin blacklist_markets(op.amount_to_sell.symbol)
    /\ is_authorized_asset(op.seller, op.amount_to_sell.symbol)
    /\ is_authorized_asset(op.seller, op.min_to_receive.symbol)
    /\ get_balance(saved, op.seller, op.amount_to_sell.symbol) >= op.amount_to_sell.amount

\* C6: a limit_order_create that passes validation reaches the matching
\* trigger, and when it does the seller's balance is down by amount_to_sell,
\* the new order holds amount_to_sell for the seller, and
\* total_core_in_orders is up by amount_to_sell for the native asset only.
C6_CreateLocksFunds ==
    Is("limit_order_create") =>
        /\ ValidCreate => (At("apply_order") \/ Called("apply_order"))
        /\ At("apply_order") =>
              LET sym == op.amount_to_sell.symbol
                  n == op.amount_to_sell.amount
              IN  /\ ValidCreate
                  /\ get_balance(db, op.seller, sym) = get_balance(saved, op.seller, sym) - n
                  /\ \E o \in find_limit_order(db, loc.order_id) :
                        /\ o.seller = op.seller
                        /\ o.for_sale = n
                        /\ o \notin saved.limit_orders
                  /\ db.total_core_in_orders[op.seller] =
                        saved.total_core_in_orders[op.seller]
                            + (IF sym = STEEM_SYMBOL THEN n ELSE 0)

\* an order selling a market-issued asset is about to be matched
C6_Witness ==
    /\ Is("limit_order_create") /\ At("apply_order")
    /\ op.amount_to_sell.symbol # STEEM_SYMBOL

\* C7: once the trigger has run, a fill_or_kill order succeeds exactly when it
\* was reported filled, otherwise fails with FillOrKillFailed and leaves no
\* order; without fill_or_kill the operation succeeds.
C7_FillOrKill ==
    (Is("limit_order_create") /\ status = "done" /\ Called("apply_order")) =>
        IF op.fill_or_kill
        THEN /\ loc.filled <=> err = "none"
             /\ ~loc.filled => /\ err = "FillOrKillFailed"
                               /\ find_limit_order(db, loc.order_id) = {}
        ELSE err = "none"

\* a fill_or_kill order was filled against the book
C7_Witness ==
    /\ Is("limit_order_create") /\ Succeeded
    /\ op.fill_or_kill /\ loc.filled

\* C8: cancelling somebody else's order fails with NotOwner, with no change
\* applied, the order and the balances as before, and no liquidation check.
C8_NotOwner ==
    (/\ Is("limit_order_cancel")
     /\ \E o \in find_limit_order(saved, op.order) : o.seller # op.fee_paying_account)
        => /\ status = "done"
           /\ err = "NotOwner"
           /\ mutations = 0
           /\ ~Called("cancel_order") /\ ~Called("check_call_orders")
           /\ db.limit_orders = saved.limit_orders
           /\ db.balance = saved.balance

C8_Witness == Is("limit_order_cancel") /\ err = "NotOwner"

CancelCalls(o) ==
    << <<"cancel_order", "no virtual op">>,
       <<"check_call_orders", o.sell_price.base.symbol>>,
       <<"check_call_orders", o.sell_price.quote.symbol>> >>

\* C9: cancelling one's own order removes it first, without a virtual
\* operation, and then checks call orders of the base and of the quote asset
\* the order had, in that order, once each.
C9_CancelThenRecheck ==
    Is("limit_order_cancel") =>
        \A o \in find_limit_order(saved, op.order) :
            o.seller = op.fee_paying_account =>
                /\ err = "none"
                /\ find_limit_order(db, op.order) = {}
                /\ Len(calls) \in 1..3
                /\ calls = SubSeq(CancelCalls(o), 1, Len(calls))
                /\ status = "done" => calls = CancelCalls(o)

C9_Witness ==
    /\ Is("limit_order_cancel") /\ Succeeded
    /\ Len(calls) = 3

\* C10: after a successful call_order_update that leaves the position open,
\* its call_price is price::call_price of its total debt, its total
\* collateral and the feed's current maintenance_collateral_ratio.
C10_CallPriceCurrent ==
    (Is("call_order_update") /\ Succeeded) =>
        \A cl \in Updated :
            cl.call_price =
                call_price(get_debt(cl), get_collateral(cl),
                    db.bitasset[cl.debt_symbol].current_feed.maintenance_collateral_ratio)

\* an existing position was accumulated into under a ratio other than the
\* one its previous call price was computed with
C10_Witness ==
    /\ Is("call_order_update") /\ Succeeded
    /\ \E cl \in Updated : \E old \in UpdatedBefore :
          /\ cl.debt # old.debt
          /\ old.call_price #
                call_price(get_debt(old), get_collateral(old),
                    db.bitasset[cl.debt_symbol].current_feed.maintenance_collateral_ratio)

\* C11: once a market-issued asset has a settlement, every call_order_update on
\* it fails with SettlementInProgress, whatever the deltas: the evaluator has
\* made no change (no call order created, modified or removed, no balance or
\* supply moved) and the ledger is as it was before the operation.
C11_SettlementBlocksUpdates ==
    ( /\ Is("call_order_update")
      /\ is_market_issued(op.delta_debt.symbol)
      /\ saved.bitasset[op.delta_debt.symbol].has_settlement )
    => /\ status = "done"
       /\ err = "SettlementInProgress"
       /\ thrown_by = "assert_no_settlement"
       /\ mutations = 0
       /\ calls = <<>>
       /\ db = saved

\* an update that only adds collateral to a settled asset has been refused
C11_Witness ==
    /\ Is("call_order_update")
    /\ err = "SettlementInProgress"
    /\ op.delta_debt.amount <= 0
    /\ op.delta_collateral.amount > 0
    /\ op.delta_collateral.symbol = short_backing_asset(op.delta_debt.symbol)

C13_PredictionMarketOneToOne ==
    ( /\ Is("call_order_update")
      /\ is_prediction_market(op.delta_debt.symbol)
      /\ op.delta_collateral.amount # op.delta_debt.amount )
    => /\ status = "done"
       /\ Failed
       /\ thrown_by \in ValidateStmts
       /\ mutations = 0
       /\ calls = <<>>
       /\ db = saved

\* an unequal pair of deltas on the prediction market reached the 1:1 check
\* (no settlement, right collateral asset) and was refused there
C13_Witness ==
    /\ Is("call_order_update")
    /\ is_prediction_market(op.delta_debt.symbol)
    /\ op.delta_collateral.amount > op.delta_debt.amount
    /\ op.delta_debt.amount > 0
    /\ err = "PredictionMarketMismatch"
    /\ thrown_by = "assert_feed"

\* C14: there is at most one stored call order per (account, debt asset): a
\* call_order_update creates a call order only when the funding account has
\* none for the debt asset, and otherwise adds the deltas to the existing one.
C14_OneCallOrderPerAccountAsset ==
    /\ \A x, y \in db.call_orders :
          x.borrower = y.borrower /\ x.debt_symbol = y.debt_symbol => x = y
    /\ Is("call_order_update") /\ Called("create") => UpdatedBefore = {}
    /\ ( Is("call_order_update") /\ Succeeded /\ UpdatedBefore # {} /\ Updated # {} )
       => \E old \in UpdatedBefore : \E new \in Updated :
             /\ new.id = old.id
             /\ new.debt = old.debt + op.delta_debt.amount
             /\ new.collateral = old.collateral + op.delta_collateral.amount

\* an account that already had a position borrowed more: still one record,
\* while the other account holds a position of its own
C14_Witness ==
    /\ Is("call_order_update")
    /\ Succeeded
    /\ UpdatedBefore # {}
    /\ op.delta_debt.amount > 0
    /\ ~Called("create")
    /\ Cardinality({x \in db.call_orders : x.debt_symbol = op.delta_debt.symbol}) = 2

\* the STEEM that acct has locked in ledger d: what its open limit orders
\* still offer of it plus the collateral of its open call orders
locked_core(d, acct) ==
    LET selling == {o \in d.limit_orders :
                       o.seller = acct /\ o.sell_price.base.symbol = STEEM_SYMBOL}
        backing == {cl \in d.call_orders :
                       /\ cl.borrower = acct
                       /\ short_backing_asset(cl.debt_symbol) = STEEM_SYMBOL}
    IN  SumOf({<<o.id, o.for_sale>> : o \in selling})
            + SumOf({<<cl.id, cl.collateral>> : cl \in backing})

\* C15: each account's total_core_in_orders equals the native-asset amount it
\* has locked: the sum of for_sale over its open limit orders selling STEEM
\* plus the collateral of its open call orders backed by STEEM.
C15_TotalCoreInOrders ==
    \A acct \in Accounts : db.total_core_in_orders[acct] = locked_core(db, acct)

\* an account has STEEM in a resting limit order and in a call order at once
C15_Witness ==
    /\ status = "idle"
    /\ \E acct \in Accounts :
          /\ \E o \in db.limit_orders :
                o.seller = acct /\ o.sell_price.base.symbol = STEEM_SYMBOL
          /\ \E cl \in db.call_orders : cl.borrower = acct /\ cl.id > 1
          /\ db.total_core_in_orders[acct] >= 2

\* C16: for an asset that is not a prediction market, when check_call_orders
\* reports a fill the update succeeds only if the updated call order no longer
\* exists; if it still exists the operation fails with UnfilledMarginCall,
\* whatever its call price (also when another account's position was filled).
C16_FilledMeansGone ==
    ( /\ Is("call_order_update")
      /\ status = "done"
      /\ Called("check_call_orders")
      /\ loc.margin_called )
    => /\ ~is_prediction_market(op.delta_debt.symbol)
       /\ Succeeded => find_call_order(db, loc.call_order_id) = {} /\ Updated = {}
       /\ ~Succeeded => err = "UnfilledMarginCall" /\ thrown_by = "assert_margin_call"

\* a new position that the feed does not make callable was refused, because
\* the trigger filled the position of the other account
C16_Witness ==
    /\ Is("call_order_update")
    /\ status = "done"
    /\ loc.margin_called
    /\ err = "UnfilledMarginCall"
    /\ UpdatedBefore = {}
    /\ LET feed == saved.bitasset[op.delta_debt.symbol].current_feed
       IN  PriceLT(Invert(call_price(op.delta_debt, op.delta_collateral,
                                     feed.maintenance_collateral_ratio)),
                   feed.settlement_price)

\* C17: current_supply of a debt asset is never negative while a
\* call_order_update is applied, not even right after delta_debt has been
\* added to it; a supply that would go negative stops processing for good
\* instead of being a state the evaluator goes on from.
C17_SupplyNeverNegative ==
    /\ \A a \in MarketIssued : db.current_supply[a] >= 0
    /\ ( /\ Is("call_order_update")
         /\ is_market_issued(op.delta_debt.symbol)
         /\ Called("adjust_balance")
         /\ op.delta_debt.amount # 0
         /\ saved.current_supply[op.delta_debt.symbol] + op.delta_debt.amount < 0 )
       => status = "halted"

\* C18: after any sequence of successful operations every account's balance
\* of every asset is non-negative; no successful call_order_update takes more
\* of the debt asset or of the collateral asset than the funding account had.
C18_BalancesNonNegative ==
    /\ (status = "idle" \/ Succeeded) =>
          \A acct \in Accounts, a \in Assets : get_balance(db, acct, a) >= 0
    /\ ( Is("call_order_update") /\ Succeeded ) =>
          /\ op.delta_debt.amount < 0 =>
                get_balance(saved, op.funding_account, op.delta_debt.symbol)
                    >= -op.delta_debt.amount
          /\ op.delta_collateral.amount > 0 =>
                get_balance(saved, op.funding_account, op.delta_collateral.symbol)
                    >= op.delta_collateral.amount

\* the current operation undoes the update that has just opened a position:
\* same account, same assets, the opposite deltas
ClosesOpened ==
    /\ opened # <<>>
    /\ Is("call_order_update")
    /\ op.funding_account = opened[1].op.funding_account
    /\ op.delta_debt = asset(-opened[1].op.delta_debt.amount,
                             opened[1].op.delta_debt.symbol)
    /\ op.delta_collateral = asset(-opened[1].op.delta_collateral.amount,
                                   opened[1].op.delta_collateral.symbol)

\* C19: round trip. For an account without a call order on the debt asset, a
\* successful call_order_update(+d, +c) that is not liquidated, followed by
\* call_order_update(-d, -c) of the same account: the second one succeeds,
\* removes the call order, puts the account's debt-asset balance,
\* collateral-asset balance and total_core_in_orders and the asset's
\* current_supply back to what they were before the first one, and does not
\* call check_call_orders.
C19_RoundTrip ==
    ClosesOpened =>
        LET acct == op.funding_account
            before == opened[1].before
        IN  /\ Succeeded
            /\ Called("remove")
            /\ Updated = {}
            /\ ~Called("check_call_orders")
            /\ db.call_orders = before.call_orders
            /\ get_balance(db, acct, op.delta_debt.symbol)
                   = get_balance(before, acct, op.delta_debt.symbol)
            /\ get_balance(db, acct, op.delta_collateral.symbol)
                   = get_balance(before, acct, op.delta_collateral.symbol)
            /\ db.total_core_in_orders[acct] = before.total_core_in_orders[acct]
            /\ db.current_supply[op.delta_debt.symbol]
                   = before.current_supply[op.delta_debt.symbol]

\* a position on an asset with a feed was opened and closed again at once
C19_Witness ==
    /\ ClosesOpened
    /\ status = "done"
    /\ ~is_prediction_market(op.delta_debt.symbol)
    /\ opened[1].op.delta_collateral.amount > opened[1].op.delta_debt.amount

\* C20: every stored call order of a prediction-market asset has collateral
\* equal to debt, and call_order_update never invokes check_call_orders for
\* such an asset.
C20_PredictionMarketPositions ==
    /\ \A cl \in db.call_orders :
          is_prediction_market(cl.debt_symbol) => cl.collateral = cl.debt
    /\ ( Is("call_order_update") /\ is_prediction_market(op.delta_debt.symbol) )
       => ~Called("check_call_orders") /\ status # "running"

\* a prediction-market position was enlarged by a second update, with no feed
\* published for the asset
C20_Witness ==
    /\ Is("call_order_update")
    /\ Succeeded
    /\ is_prediction_market(op.delta_debt.symbol)
    /\ UpdatedBefore # {}
    /\ \E cl \in Updated : cl.debt = 2 /\ cl.collateral = 2
    /\ is_null(db.bitasset[op.delta_debt.symbol].current_feed.settlement_price)

====
